---- MODULE Spec2Model ----
(***************************************************************************)
(* A model of the restaurant recommendation backend:                       *)
(*   backend/utils.py  recommend_restaurant_by_mood_content, translate,    *)
(*                     load_parquet_from_huggingface                       *)
(*   backend/main.py   get_dataset, get_recommendation, translate_text     *)
(*                                                                         *)
(* Five specifications share one set of variables:                         *)
(*   RecSpec    the mood recommender applied to every small table          *)
(*   ApiSpec    one HTTP request through /recommend or /translate          *)
(*   LoaderSpec one call of the dataset loader                             *)
(*   CacheSpec  get_dataset called from concurrent threads                 *)
(*   SeqSpec    get_dataset called one call after another                  *)
(***************************************************************************)
EXTENDS Integers, Sequences, FiniteSets, TLC

VARIABLES
    \* ---- recommend_restaurant_by_mood_content (utils.py 187-224)
    df,                      \* the table argument: a sequence of review rows
    mood,                    \* the mood argument
    num_of_recommendations,  \* the topN argument
    final_best,              \* the value returned (None or a row)
    rec_pc,                  \* "idle" | "call" | "returned"
    \* ---- one HTTP request (main.py 84-155, utils.py 121-149)
    route,                   \* "/recommend" | "/translate"
    language,                \* request.language
    api_pc,                  \* the handler's position
    llm_clients,             \* ChatGoogleGenerativeAI objects constructed
    llm_calls,               \* llm.invoke calls issued
    raw,                     \* response.content as the model produced it
    content,                 \* the text the core logic returns
    exc,                     \* the exception in flight (None when there is none)
    http,                    \* the HTTP response (None until the handler ends)
    \* ---- the dataset loader and its cache (utils.py 151-185, main.py 45-60)
    source,                  \* the rows of the remote parquet file
    max_rows,                \* the loader's max_rows argument
    pc,                      \* each caller's position
    attempt,                 \* each caller's loop variable of the retry loop
    call_id,                 \* which loader invocation each caller is in
    loaded,                  \* the loader's return value, per caller
    tries,                   \* download attempts made in the caller's loader call
    raised,                  \* how many of them raised
    slept,                   \* seconds spent in time.sleep in that loader call
    customer_reviews_df,     \* the process-wide cache (None while empty)
    returned,                \* get_dataset's return value, per caller
    calls,                   \* get_dataset calls started, per caller
    loader_calls,            \* invocations of load_parquet_from_huggingface
    stores                   \* times a table was assigned to the cache

recVars == <<df, mood, num_of_recommendations, final_best, rec_pc>>
apiVars == <<route, language, api_pc, llm_clients, llm_calls, raw, content, exc, http>>

loadVars == <<source, max_rows, pc, attempt, call_id, loaded, tries, raised, slept,
              customer_reviews_df, returned, calls, loader_calls, stores>>

vars == <<recVars, apiVars, loadVars>>

(***************************************************************************)
(* Bounds of the model                                                     *)
(***************************************************************************)
MaxRows == 3
MaxTopN == 3
MaxPieces == 4
MaxSourceRows == 4
MaxCap == 3
MaxCalls == 2

(***************************************************************************)
(* Values                                                                  *)
(***************************************************************************)
None == [is_none |-> TRUE]

Range(s) == {s[i] : i \in DOMAIN s}

Min(a, b) == IF a <= b THEN a ELSE b

SeqsUpTo(S, n) == UNION {[1..k -> S] : k \in 0..n}

(***************************************************************************)
(* The reviews table                                                       *)
(***************************************************************************)
Users == {"u1", "u2"}
Moods == {"romantic", "Romantic"}
Ratings == {3, 5}

ReviewDisplayLen == 50

\* a review body longer than the display length, and a short one
LongReview == [i \in 1..(ReviewDisplayLen + 1) |-> "r"]
BriefReview == <<"o", "k">>
Reviews == {BriefReview, LongReview}

Rows == [user_id : Users, mood : Moods, review : Reviews, review_stars : Ratings]

\* str.lower() on the mood tags of the model
lower(m) == IF m = "Romantic" THEN "romantic" ELSE m

\* the index labels of a table: pandas keeps them through filter, sort and head
Frame(t) == [i \in 1..Len(t) |-> i]

\* a filter that ignores the case of the tag
MoodMatchesAnyCase(t, m) == SelectSeq(Frame(t), LAMBDA i : lower(t[i].mood) = lower(m))

\* df[df["mood"] == mood]: exact, case-sensitive equality on the stored tag
MoodMatches(t, m) == SelectSeq(Frame(t), LAMBDA i : t[i].mood = m)

\* mood_matches["user_id"].value_counts()
value_counts(t, frame) ==
    [u \in {t[frame[k]].user_id : k \in DOMAIN frame} |->
        Cardinality({k \in DOMAIN frame : t[frame[k]].user_id = u})]

\* a reviewer with the lowest count
idxmin(counts) ==
    {u \in DOMAIN counts : \A v \in DOMAIN counts : counts[u] <= counts[v]}

\* .idxmax(): a label with the highest count; which one among equal counts is
\* the order value_counts happens to produce, so every such label is possible
idxmax(counts) ==
    {u \in DOMAIN counts : \A v \in DOMAIN counts : counts[v] <= counts[u]}

\* mood_matches[mood_matches["user_id"] == mood_expert_id]
UserReviews(t, frame, u) == SelectSeq(frame, LAMBDA i : t[i].user_id = u)

\* lambda x: x[:50] + "..." if isinstance(x, str) and len(x) > 50 else x
short_review(x) ==
    IF Len(x) > ReviewDisplayLen
    THEN SubSeq(x, 1, ReviewDisplayLen) \o <<".", ".", ".">>
    ELSE x

Orderings(frame) ==
    {p \in [DOMAIN frame -> Range(frame)] : \A i, j \in DOMAIN frame : i # j => p[i] # p[j]}

\* the orderings by rating, lowest first
sort_values_ascending(t, frame) ==
    {p \in Orderings(frame) :
        \A i, j \in DOMAIN p : i < j => t[p[i]].review_stars <= t[p[j]].review_stars}

\* sort_values(by="review_stars", ascending=False): the default sort is not
\* stable, so rows of equal rating may come out in any order
sort_values(t, frame) ==
    {p \in Orderings(frame) :
        \A i, j \in DOMAIN p : i < j => t[p[i]].review_stars >= t[p[j]].review_stars}

\* .head(n)
head(frame, n) == SubSeq(frame, 1, Min(n, Len(frame)))

\* top_recommendations["review_stars"].max()
max_stars(t, frame) ==
    CHOOSE s \in {t[i].review_stars : i \in Range(frame)} :
        \A i \in Range(frame) : t[i].review_stars <= s

\* top_recommendations[top_recommendations["review_stars"] == max_score]
TopScoring(t, frame) ==
    SelectSeq(frame, LAMBDA i : t[i].review_stars = max_stars(t, frame))

\* the row of label i of the expert's copy, with its short_review column
SeriesOf(t, i) ==
    [idx |-> i, user_id |-> t[i].user_id, mood |-> t[i].mood,
     review |-> t[i].review, review_stars |-> t[i].review_stars,
     short_review |-> short_review(t[i].review)]

\* every value recommend_restaurant_by_mood_content(t, m, n) can return
recommend_restaurant_by_mood_content(t, m, n) ==
    LET mood_matches == MoodMatches(t, m) IN
    IF mood_matches = <<>> THEN {None}
    ELSE UNION {
           UNION {
             \* .sample(1, random_state=random.randint(1, 9999)).iloc[0]
             {SeriesOf(t, i) : i \in Range(TopScoring(t, head(sorted, n)))}
             : sorted \in sort_values(t, UserReviews(t, mood_matches, mood_expert_id)) }
           : mood_expert_id \in idxmax(value_counts(t, mood_matches)) }

(***************************************************************************)
(* RecSpec: the recommender on every table of at most MaxRows rows         *)
(***************************************************************************)
RecIdle ==
    /\ df = <<>>
    /\ mood = "romantic"
    /\ num_of_recommendations = 1
    /\ final_best = None
    /\ rec_pc = "idle"

ApiIdle ==
    /\ route = "none"
    /\ language = "none"
    /\ api_pc = "idle"
    /\ llm_clients = 0
    /\ llm_calls = 0
    /\ raw = <<>>
    /\ content = <<>>
    /\ exc = None
    /\ http = None

Callers == {"t1", "t2"}

LoadIdle ==
    /\ source = <<>>
    /\ max_rows = 0
    /\ pc = [t \in Callers |-> "idle"]
    /\ attempt = [t \in Callers |-> 0]
    /\ call_id = [t \in Callers |-> 0]
    /\ loaded = [t \in Callers |-> None]
    /\ tries = [t \in Callers |-> 0]
    /\ raised = [t \in Callers |-> 0]
    /\ slept = [t \in Callers |-> 0]
    /\ customer_reviews_df = None
    /\ returned = [t \in Callers |-> None]
    /\ calls = [t \in Callers |-> 0]
    /\ loader_calls = 0
    /\ stores = 0

RecInit ==
    /\ ApiIdle
    /\ LoadIdle
    /\ df \in SeqsUpTo(Rows, MaxRows)
    /\ mood \in Moods
    /\ num_of_recommendations \in 1..MaxTopN
    /\ final_best = None
    /\ rec_pc = "call"

Recommend ==
    /\ rec_pc = "call"
    /\ final_best' \in recommend_restaurant_by_mood_content(df, mood, num_of_recommendations)
    /\ rec_pc' = "returned"
    /\ UNCHANGED <<df, mood, num_of_recommendations>>
    /\ UNCHANGED <<apiVars, loadVars>>

RecNext == Recommend

RecSpec == RecInit /\ [][RecNext]_vars

(***************************************************************************)
(* Properties of the recommender                                           *)
(***************************************************************************)
\* the rows of the table tagged exactly m
Tagged(t, m) == {i \in 1..Len(t) : t[i].mood = m}

\* the number of rows tagged m that user u wrote
ReviewCount(t, m, u) == Cardinality({i \in Tagged(t, m) : t[i].user_id = u})

\* the k highest ratings among the rows in S, highest first
RECURSIVE TopRatings(_, _, _)
TopRatings(t, S, k) ==
    IF k = 0 \/ S = {} THEN <<>>
    ELSE LET best == CHOOSE i \in S : \A j \in S : t[j].review_stars <= t[i].review_stars
         IN <<t[best].review_stars>> \o TopRatings(t, S \ {best}, k - 1)

\* C1: the recommender returns None exactly when no row of the table is
\* tagged with the requested mood (compared case-sensitively), and otherwise
\* returns a row of the table whose mood tag equals the requested mood.
C1_NoneIffNoMatch ==
    rec_pc = "returned" =>
        /\ (final_best = None) <=> (Tagged(df, mood) = {})
        /\ final_best # None =>
              /\ final_best.idx \in Tagged(df, mood)
              /\ final_best.mood = mood
              /\ df[final_best.idx] =
                    [user_id |-> final_best.user_id, mood |-> final_best.mood,
                     review |-> final_best.review,
                     review_stars |-> final_best.review_stars]

\* C1 witness: None is returned for a table holding a row whose tag differs
\* from the requested mood only in case.
C1_Witness ==
    /\ rec_pc = "returned"
    /\ final_best = None
    /\ \E i \in 1..Len(df) : df[i].mood # mood /\ lower(df[i].mood) = lower(mood)

\* C2: the rating of the returned row equals the maximum rating among the
\* expert's top-topN reviews for the mood (all of them when the expert has
\* fewer than topN), so no lower-rated row is returned while a higher-rated
\* one is in that set.
C2_RatingIsMaxOfTopN ==
    (rec_pc = "returned" /\ final_best # None) =>
        LET expert == {i \in Tagged(df, mood) : df[i].user_id = final_best.user_id}
            top    == TopRatings(df, expert, num_of_recommendations)
        IN /\ Len(top) = Min(num_of_recommendations, Cardinality(expert))
           /\ final_best.review_stars \in Range(top)
           /\ \A k \in DOMAIN top : top[k] <= final_best.review_stars

\* C2 witness: three rows of one user tagged with the mood, rated 5, 5 and 3;
\* the second rating-5 row is the one returned.
C2_Witness ==
    /\ rec_pc = "returned"
    /\ Len(df) = 3
    /\ \A i \in 1..3 : df[i].mood = mood /\ df[i].user_id = df[1].user_id
    /\ <<df[1].review_stars, df[2].review_stars, df[3].review_stars>> = <<5, 5, 3>>
    /\ final_best # None
    /\ final_best.idx = 2

\* C8: the returned row was written by a mood expert: no user has more rows
\* tagged with the mood than the user of the returned row.
C8_ReturnedRowIsByExpert ==
    (rec_pc = "returned" /\ final_best # None) =>
        \A u \in Users :
            ReviewCount(df, mood, u) <= ReviewCount(df, mood, final_best.user_id)

\* C8 witness: two users reviewed under the mood, one more often than the
\* other, and a row of the more active one is returned.
C8_Witness ==
    /\ rec_pc = "returned"
    /\ final_best # None
    /\ \E u \in Users :
          /\ ReviewCount(df, mood, u) > 0
          /\ ReviewCount(df, mood, u) < ReviewCount(df, mood, final_best.user_id)

(***************************************************************************)
(* Text: strings are sequences of characters                               *)
(***************************************************************************)
IntroPhrase ==
    <<"H", "e", "r", "e", "'", "s", " ", "t", "h", "e", " ",
      "t", "r", "a", "n", "s", "l", "a", "t", "i", "o", "n">>

Whitespace == {" ", "\n", "\t"}

SetMin(S) == CHOOSE x \in S : \A y \in S : x <= y
SetMax(S) == CHOOSE x \in S : \A y \in S : y <= x

\* the positions of s at which an occurrence of p starts
Occurrences(s, p) ==
    {k \in 1..(Len(s) - Len(p) + 1) : SubSeq(s, k, k + Len(p) - 1) = p}

\* p in s
Contains(s, p) == Occurrences(s, p) # {}

\* s.split(p, 1)[1], for s containing p: what follows the first occurrence
AfterFirst(s, p) == SubSeq(s, SetMin(Occurrences(s, p)) + Len(p), Len(s))

\* the text unchanged
no_strip(s) == s

\* s.strip(): without its leading and trailing whitespace
strip(s) ==
    LET solid == {i \in DOMAIN s : s[i] \notin Whitespace}
    IN IF solid = {} THEN <<>> ELSE SubSeq(s, SetMin(solid), SetMax(solid))

\* the post-processing of translate (utils.py 144-149)
RemoveIntro(text) ==
    IF Contains(text, IntroPhrase)
    THEN LET tail == AfterFirst(text, IntroPhrase)
             rest == IF Contains(tail, <<":">>) THEN AfterFirst(tail, <<":">>) ELSE tail
         IN strip(rest)
    ELSE text

(***************************************************************************)
(* The language model: any response, or a failure                          *)
(***************************************************************************)
Pieces ==
    { IntroPhrase, <<":">>, <<" ">>, <<"B", "o", "n", "j", "o", "u", "r">>,
      <<"H", "e", "r", "e">> }

RECURSIVE Concat(_)
Concat(ps) == IF ps = <<>> THEN <<>> ELSE Head(ps) \o Concat(Tail(ps))

\* the texts the model may answer with
Responses == {Concat(ps) : ps \in SeqsUpTo(Pieces, MaxPieces)}

ClientErrors == {[type |-> "ValidationError", message |-> "invalid client configuration"]}

InvokeErrors ==
    { [type |-> "ResourceExhausted", message |-> "429 quota exceeded"],
      [type |-> "DeadlineExceeded", message |-> "504 deadline exceeded"] }

(***************************************************************************)
(* translate (utils.py 121-149)                                            *)
(***************************************************************************)
supported_languages == {"Spanish", "French", "German", "Romanian"}

Languages == supported_languages \cup {"Klingon", "french"}

\* str.lower() on the language names of the model
lower_language(l) == IF l = "French" THEN "french" ELSE l

\* a membership test that ignores case
IsSupportedAnyCase(l) == \E s \in supported_languages : lower_language(s) = lower_language(l)

\* target_language in supported_languages
IsSupported(l) == l \in supported_languages

\* ValueError(f"Language {target_language} not supported!")
UnsupportedLanguage(l) ==
    [type |-> "ValueError", message |-> "Language " \o l \o " not supported!"]

\* str(e)
str(e) == e.message

\* HTTPException(status_code=500, detail=str(e))
HTTPException(e) == [status_code |-> 500, detail |-> str(e)]

ApiUnchangedRest == UNCHANGED <<recVars, loadVars>>

\* utils.py 135-137
TranslateValidate ==
    /\ api_pc = "translate"
    /\ IF IsSupported(language)
       THEN api_pc' = "translate_construct" /\ exc' = exc
       ELSE api_pc' = "translate_except" /\ exc' = UnsupportedLanguage(language)
    /\ UNCHANGED <<route, language, llm_clients, llm_calls, raw, content, http>>
    /\ ApiUnchangedRest

\* utils.py 139: the client is constructed, or its constructor raises
TranslateConstruct ==
    /\ api_pc = "translate_construct"
    /\ llm_clients' = llm_clients + 1
    /\ \/ api_pc' = "translate_invoke" /\ exc' = exc
       \/ \E e \in ClientErrors : api_pc' = "translate_except" /\ exc' = e
    /\ UNCHANGED <<route, language, llm_calls, raw, content, http>>
    /\ ApiUnchangedRest

\* utils.py 140-149: the model answers and the answer is post-processed, or
\* the call raises
TranslateInvoke ==
    /\ api_pc = "translate_invoke"
    /\ llm_calls' = llm_calls + 1
    /\ \/ \E r \in Responses :
            /\ raw' = r
            /\ content' = RemoveIntro(r)
            /\ api_pc' = "translate_return"
            /\ exc' = exc
       \/ \E e \in InvokeErrors :
            /\ api_pc' = "translate_except"
            /\ exc' = e
            /\ UNCHANGED <<raw, content>>
    /\ UNCHANGED <<route, language, llm_clients, http>>
    /\ ApiUnchangedRest

\* main.py 152-153
TranslateTextReturn ==
    /\ api_pc = "translate_return"
    /\ http' = [status_code |-> 200, translated_text |-> content]
    /\ api_pc' = "done"
    /\ UNCHANGED <<route, language, llm_clients, llm_calls, raw, content, exc>>
    /\ ApiUnchangedRest

\* main.py 154-155
TranslateTextExcept ==
    /\ api_pc = "translate_except"
    /\ http' = HTTPException(exc)
    /\ api_pc' = "done"
    /\ UNCHANGED <<route, language, llm_clients, llm_calls, raw, content, exc>>
    /\ ApiUnchangedRest

(***************************************************************************)
(* get_recommendation (main.py 84-132)                                     *)
(***************************************************************************)
\* main.py 104-114: the client is constructed, or its constructor raises
RecommendConstruct ==
    /\ api_pc = "recommend"
    /\ llm_clients' = llm_clients + 1
    /\ \/ api_pc' = "recommend_invoke" /\ exc' = exc
       \/ \E e \in ClientErrors : api_pc' = "recommend_except" /\ exc' = e
    /\ UNCHANGED <<route, language, llm_calls, raw, content, http>>
    /\ ApiUnchangedRest

\* an invoke that is issued once more after a failure
RecommendInvokeRetrying ==
    /\ api_pc = "recommend_invoke"
    /\ llm_calls' = llm_calls + 1
    /\ \/ \E r \in Responses :
            /\ raw' = r
            /\ content' = r
            /\ api_pc' = "recommend_return"
            /\ exc' = exc
       \/ \E e \in InvokeErrors :
            /\ api_pc' = IF llm_calls = 0 THEN "recommend_invoke" ELSE "recommend_except"
            /\ exc' = IF llm_calls = 0 THEN exc ELSE e
            /\ UNCHANGED <<raw, content>>
    /\ UNCHANGED <<route, language, llm_clients, http>>
    /\ ApiUnchangedRest

\* main.py 115-128: the model answers and its text is taken as it is, or the
\* call raises
RecommendInvoke ==
    /\ api_pc = "recommend_invoke"
    /\ llm_calls' = llm_calls + 1
    /\ \/ \E r \in Responses :
            /\ raw' = r
            /\ content' = r
            /\ api_pc' = "recommend_return"
            /\ exc' = exc
       \/ \E e \in InvokeErrors :
            /\ api_pc' = "recommend_except"
            /\ exc' = e
            /\ UNCHANGED <<raw, content>>
    /\ UNCHANGED <<route, language, llm_clients, http>>
    /\ ApiUnchangedRest

\* main.py 130
RecommendReturn ==
    /\ api_pc = "recommend_return"
    /\ http' = [status_code |-> 200, recommendation |-> content]
    /\ api_pc' = "done"
    /\ UNCHANGED <<route, language, llm_clients, llm_calls, raw, content, exc>>
    /\ ApiUnchangedRest

\* main.py 131-132
RecommendExcept ==
    /\ api_pc = "recommend_except"
    /\ http' = HTTPException(exc)
    /\ api_pc' = "done"
    /\ UNCHANGED <<route, language, llm_clients, llm_calls, raw, content, exc>>
    /\ ApiUnchangedRest

(***************************************************************************)
(* ApiSpec: one request on either route                                    *)
(***************************************************************************)
ApiInit ==
    /\ RecIdle
    /\ LoadIdle
    /\ \/ route = "/recommend" /\ language = "none" /\ api_pc = "recommend"
       \/ route = "/translate" /\ language \in Languages /\ api_pc = "translate"
    /\ llm_clients = 0
    /\ llm_calls = 0
    /\ raw = <<>>
    /\ content = <<>>
    /\ exc = None
    /\ http = None

ApiNext ==
    \/ TranslateValidate
    \/ TranslateConstruct
    \/ TranslateInvoke
    \/ TranslateTextReturn
    \/ TranslateTextExcept
    \/ RecommendConstruct
    \/ RecommendInvoke
    \/ RecommendReturn
    \/ RecommendExcept

ApiSpec == ApiInit /\ [][ApiNext]_vars

(***************************************************************************)
(* Properties of translate and of the two routes                           *)
(***************************************************************************)
\* the allow-list as the specification states it
AllowList == {"Spanish", "French", "German", "Romanian"}

\* translate has returned its text
TranslateReturned ==
    route = "/translate" /\ api_pc \in {"translate_return", "done"} /\ exc = None

\* the last position of the first occurrence of the introductory phrase in s
IntroEnd(s) ==
    SetMin({k \in 1..Len(s) :
               /\ k >= Len(IntroPhrase)
               /\ \A j \in 1..Len(IntroPhrase) :
                     s[k - Len(IntroPhrase) + j] = IntroPhrase[j]})

\* the position through which s is cut: the first colon after the phrase,
\* or the end of the phrase when no colon follows it
CutAt(s) ==
    LET colons == {c \in (IntroEnd(s) + 1)..Len(s) : s[c] = ":"}
    IN IF colons = {} THEN IntroEnd(s) ELSE SetMin(colons)

\* C3: translate with a language outside the allow-list fails with the
\* unsupported-language error before a model client is constructed or a
\* model call is issued: both counts stay zero throughout the call.
C3_UnsupportedLanguageNoModelCall ==
    (route = "/translate" /\ language \notin AllowList) =>
        /\ llm_clients = 0
        /\ llm_calls = 0
        /\ api_pc \in {"translate", "translate_except", "done"}
        /\ api_pc # "translate" =>
              /\ exc # None
              /\ exc.type = "ValueError"
              /\ exc.message = "Language " \o language \o " not supported!"

\* C3 witness: a request for Klingon has ended with the ValueError.
C3_Witness ==
    /\ route = "/translate"
    /\ language = "Klingon"
    /\ api_pc = "done"
    /\ exc # None
    /\ exc.type = "ValueError"

\* C4 as stated: whenever the raw response contains the introductory phrase,
\* translate returns non-empty text that does not contain the phrase.
C4_Original ==
    (TranslateReturned /\ Contains(raw, IntroPhrase)) =>
        /\ content # <<>>
        /\ ~Contains(content, IntroPhrase)

\* C4 as amended: whenever the raw response contains the introductory
\* phrase, translate returns what follows the first colon after the first
\* occurrence of the phrase (what follows the phrase when no colon does),
\* without its leading and trailing whitespace; that text is free of the
\* phrase when the phrase occurs once in the raw response, and is non-empty
\* exactly when something other than whitespace follows the cut.
C4_StrippedThroughFirstColon ==
    (TranslateReturned /\ Contains(raw, IntroPhrase)) =>
        LET cut  == CutAt(raw)
            kept == {i \in (cut + 1)..Len(raw) : raw[i] \notin Whitespace}
        IN /\ content = IF kept = {} THEN <<>>
                        ELSE [i \in 1..(SetMax(kept) - SetMin(kept) + 1) |->
                                 raw[SetMin(kept) + i - 1]]
           /\ (content # <<>>) <=> (kept # {})
           /\ content # <<>> =>
                 content[1] \notin Whitespace /\ content[Len(content)] \notin Whitespace
           /\ Cardinality(Occurrences(raw, IntroPhrase)) = 1 =>
                 ~Contains(content, IntroPhrase)

\* C4 witness: the response "Here's the translation: Bonjour" came back as
\* "Bonjour".
C4_Witness ==
    /\ TranslateReturned
    /\ raw = IntroPhrase \o <<":", " ">> \o <<"B", "o", "n", "j", "o", "u", "r">>
    /\ content = <<"B", "o", "n", "j", "o", "u", "r">>

\* C7: on both routes an exception of the core logic ends the request with
\* status 500 and the exception's message as detail; the success payload is
\* returned only when there was no exception; the model is invoked at most
\* once per request, so never again after a failure.
C7_ExceptionsBecome500 ==
    /\ llm_calls <= 1
    /\ api_pc \notin {"idle", "done"} => http = None
    /\ api_pc = "done" =>
          /\ exc # None => http = [status_code |-> 500, detail |-> exc.message]
          /\ exc = None =>
                http = IF route = "/recommend"
                       THEN [status_code |-> 200, recommendation |-> content]
                       ELSE [status_code |-> 200, translated_text |-> content]
          /\ exc = None => (llm_calls = 1 /\ content = IF route = "/recommend"
                                                        THEN raw ELSE RemoveIntro(raw))

\* C7 witness: a /recommend request whose model call failed has ended with
\* status 500 after that single call.
C7_Witness ==
    /\ route = "/recommend"
    /\ api_pc = "done"
    /\ exc \in InvokeErrors
    /\ http # None
    /\ http.status_code = 500
    /\ llm_calls = 1

(***************************************************************************)
(* load_parquet_from_huggingface (utils.py 151-185)                        *)
(***************************************************************************)
DownloadAttempts == 3
LastRetryIndex == 2
BackoffSeconds == 5

\* the remote files of the model: rows 1..n
Sources == {[i \in 1..n |-> i] : n \in 0..MaxSourceRows}

\* df.sample(n=n, random_state=42): n distinct rows, in the order the seeded
\* generator happens to give
sample(rows, n) ==
    {p \in [1..n -> Range(rows)] : \A i, j \in 1..n : i # j => p[i] # p[j]}

\* the table kept whatever its size
Uncapped(rows, n) == {rows}

\* utils.py 175-176: the table, or a sample of n of its rows when it has more
CapRows(rows, n) == IF Len(rows) > n THEN sample(rows, n) ELSE {rows}

RestOfLoad(t) ==
    /\ UNCHANGED <<source, max_rows, call_id, customer_reviews_df, returned, calls,
                   loader_calls, stores>>
    /\ UNCHANGED <<recVars, apiVars>>

\* utils.py 165-178: the download and the read succeed; the table is capped
\* and returned
AttemptSucceeds(t) ==
    /\ pc[t] = "attempt"
    /\ tries' = [tries EXCEPT ![t] = @ + 1]
    /\ \E rows \in CapRows(source, max_rows) :
          loaded' = [loaded EXCEPT ![t] = [id |-> call_id[t], rows |-> rows]]
    /\ pc' = [pc EXCEPT ![t] = "loader_returned"]
    /\ UNCHANGED <<attempt, raised, slept>>
    /\ RestOfLoad(t)

\* a handler that waits after every failed attempt
AttemptRaisesAlwaysWaits(t) ==
    /\ pc[t] = "attempt"
    /\ tries' = [tries EXCEPT ![t] = @ + 1]
    /\ raised' = [raised EXCEPT ![t] = @ + 1]
    /\ pc' = [pc EXCEPT ![t] = "sleep"]
    /\ UNCHANGED <<loaded, attempt, slept>>
    /\ RestOfLoad(t)

\* utils.py 165-174, 179-185: the download or the read raises; the handler
\* goes on to wait when attempt < 2 and returns None otherwise
AttemptRaises(t) ==
    /\ pc[t] = "attempt"
    /\ tries' = [tries EXCEPT ![t] = @ + 1]
    /\ raised' = [raised EXCEPT ![t] = @ + 1]
    /\ IF attempt[t] < LastRetryIndex
       THEN /\ pc' = [pc EXCEPT ![t] = "sleep"]
            /\ UNCHANGED loaded
       ELSE /\ loaded' = [loaded EXCEPT ![t] = None]
            /\ pc' = [pc EXCEPT ![t] = "loader_returned"]
    /\ UNCHANGED <<attempt, slept>>
    /\ RestOfLoad(t)

\* utils.py 182, 164: time.sleep(5), then the next iteration of
\* for attempt in range(3); a loop that runs out returns None
Sleep(t) ==
    /\ pc[t] = "sleep"
    /\ slept' = [slept EXCEPT ![t] = @ + BackoffSeconds]
    /\ IF attempt[t] + 1 < DownloadAttempts
       THEN /\ attempt' = [attempt EXCEPT ![t] = @ + 1]
            /\ pc' = [pc EXCEPT ![t] = "attempt"]
            /\ UNCHANGED loaded
       ELSE /\ loaded' = [loaded EXCEPT ![t] = None]
            /\ pc' = [pc EXCEPT ![t] = "loader_returned"]
            /\ UNCHANGED attempt
    /\ UNCHANGED <<tries, raised>>
    /\ RestOfLoad(t)

(***************************************************************************)
(* LoaderSpec: one call of the loader, on every small source and cap       *)
(***************************************************************************)
LoaderInit ==
    /\ RecIdle
    /\ ApiIdle
    /\ source \in Sources
    /\ max_rows \in 0..MaxCap
    /\ pc = [t \in Callers |-> IF t = "t1" THEN "attempt" ELSE "idle"]
    /\ attempt = [t \in Callers |-> 0]
    /\ call_id = [t \in Callers |-> IF t = "t1" THEN 1 ELSE 0]
    /\ loaded = [t \in Callers |-> None]
    /\ tries = [t \in Callers |-> 0]
    /\ raised = [t \in Callers |-> 0]
    /\ slept = [t \in Callers |-> 0]
    /\ customer_reviews_df = None
    /\ returned = [t \in Callers |-> None]
    /\ calls = [t \in Callers |-> 0]
    /\ loader_calls = 1
    /\ stores = 0

LoaderNext ==
    \E t \in Callers :
        \/ AttemptSucceeds(t)
        \/ AttemptRaises(t)
        \/ Sleep(t)

\* a call that has started keeps running: each attempt returns or raises,
\* and each sleep ends
LoaderSpec == LoaderInit /\ [][LoaderNext]_vars /\ WF_vars(LoaderNext)

(***************************************************************************)
(* Properties of the loader                                                *)
(***************************************************************************)
LoaderDone == pc["t1"] = "loader_returned"

\* what holds of the loader call at every moment
LoaderSafe ==
    /\ tries["t1"] <= 3
    /\ raised["t1"] <= tries["t1"]
    \* an attempt is about to start: a 5-second wait followed every failure
    /\ pc["t1"] = "attempt" =>
          tries["t1"] = raised["t1"] /\ slept["t1"] = 5 * raised["t1"]
    /\ LoaderDone =>
          \* no attempt follows a success
          /\ loaded["t1"] # None => tries["t1"] = raised["t1"] + 1
          \* None exactly when all three attempts raised
          /\ (loaded["t1"] = None) <=> (raised["t1"] = 3)
          \* a wait follows the first and the second failure, never the third
          /\ slept["t1"] = 5 * Min(raised["t1"], 2)

\* C5: the loader makes at most 3 download attempts, stops at the first that
\* succeeds, waits 5 seconds after a failed attempt only when another
\* attempt follows, always terminates, and returns None exactly when all 3
\* attempts raised.
C5_RetryThreeTimesThenNone == []LoaderSafe /\ <>LoaderDone

\* C5 witness: the loader returned None after three failed attempts and two
\* waits.
C5_Witness ==
    /\ LoaderDone
    /\ loaded["t1"] = None
    /\ raised["t1"] = 3
    /\ slept["t1"] = 10

\* C6: a table the loader returns has at most max_rows rows: exactly
\* max_rows rows, each a row of the source, when the source has more, and
\* the source's rows unchanged otherwise.
C6_RowCap ==
    (LoaderDone /\ loaded["t1"] # None) =>
        LET rows == loaded["t1"].rows IN
        /\ Len(rows) <= max_rows
        /\ Len(source) > max_rows =>
              /\ Len(rows) = max_rows
              /\ \A i \in 1..Len(rows) : \E j \in 1..Len(source) : rows[i] = source[j]
        /\ Len(source) <= max_rows => rows = source

\* C6 witness: a source of four rows was cut down to a table of three.
C6_Witness ==
    /\ LoaderDone
    /\ loaded["t1"] # None
    /\ Len(source) = 4
    /\ max_rows = 3
    /\ Len(loaded["t1"].rows) = 3

(***************************************************************************)
(* get_dataset (main.py 45-60)                                             *)
(***************************************************************************)
DefaultMaxRows == 1000

InCall(t) == pc[t] \notin {"idle", "done"}

RestOfGet(t) ==
    /\ UNCHANGED <<source, max_rows, tries, raised, slept>>
    /\ UNCHANGED <<recVars, apiVars>>

\* the loader is entered: a fresh retry loop
EnterLoader(t) ==
    /\ loader_calls' = loader_calls + 1
    /\ call_id' = [call_id EXCEPT ![t] = loader_calls + 1]
    /\ attempt' = [attempt EXCEPT ![t] = 0]
    /\ tries' = [tries EXCEPT ![t] = 0]
    /\ raised' = [raised EXCEPT ![t] = 0]
    /\ slept' = [slept EXCEPT ![t] = 0]
    /\ pc' = [pc EXCEPT ![t] = "attempt"]

\* a check that holds the call back while another caller is loading
GetDatasetCheckSingleFlight(t) ==
    /\ pc[t] \in {"idle", "done"}
    /\ calls[t] < MaxCalls
    /\ \A u \in Callers \ {t} : pc[u] \notin {"attempt", "sleep", "loader_returned"}
    /\ calls' = [calls EXCEPT ![t] = @ + 1]
    /\ IF customer_reviews_df = None
       THEN EnterLoader(t)
       ELSE /\ pc' = [pc EXCEPT ![t] = "return"]
            /\ UNCHANGED <<loader_calls, call_id, attempt, tries, raised, slept>>
    /\ UNCHANGED <<source, max_rows, loaded, customer_reviews_df, returned, stores>>
    /\ UNCHANGED <<recVars, apiVars>>

\* a check that loads whatever the cache holds
GetDatasetCheckAlwaysLoads(t) ==
    /\ pc[t] \in {"idle", "done"}
    /\ calls[t] < MaxCalls
    /\ calls' = [calls EXCEPT ![t] = @ + 1]
    /\ EnterLoader(t)
    /\ UNCHANGED <<source, max_rows, loaded, customer_reviews_df, returned, stores>>
    /\ UNCHANGED <<recVars, apiVars>>

\* main.py 50-54: a call starts; with the cache empty it enters the loader,
\* otherwise it goes straight to the return
GetDatasetCheck(t) ==
    /\ pc[t] \in {"idle", "done"}
    /\ calls[t] < MaxCalls
    /\ calls' = [calls EXCEPT ![t] = @ + 1]
    /\ IF customer_reviews_df = None
       THEN EnterLoader(t)
       ELSE /\ pc' = [pc EXCEPT ![t] = "return"]
            /\ UNCHANGED <<loader_calls, call_id, attempt, tries, raised, slept>>
    /\ UNCHANGED <<source, max_rows, loaded, customer_reviews_df, returned, stores>>
    /\ UNCHANGED <<recVars, apiVars>>

\* main.py 54-56: the loader's return value, a table or None, is assigned to
\* the global. The loader catches every Exception itself, so the handler of
\* main.py 57-59 is never entered from it; it would leave the global None.
GetDatasetStore(t) ==
    /\ pc[t] = "loader_returned"
    /\ customer_reviews_df' = loaded[t]
    /\ stores' = IF loaded[t] # None THEN stores + 1 ELSE stores
    /\ pc' = [pc EXCEPT ![t] = "return"]
    /\ UNCHANGED <<attempt, call_id, loaded, returned, calls, loader_calls>>
    /\ RestOfGet(t)

\* main.py 60: the global is read and returned
GetDatasetReturn(t) ==
    /\ pc[t] = "return"
    /\ returned' = [returned EXCEPT ![t] = customer_reviews_df]
    /\ pc' = [pc EXCEPT ![t] = "done"]
    /\ UNCHANGED <<attempt, call_id, loaded, customer_reviews_df, calls, loader_calls,
                   stores>>
    /\ RestOfGet(t)

(***************************************************************************)
(* CacheSpec: get_dataset called from threads that run concurrently        *)
(* SeqSpec:   get_dataset called again only after the call before it ended *)
(***************************************************************************)
CacheInit ==
    /\ RecIdle
    /\ ApiIdle
    /\ source \in Sources
    /\ max_rows = DefaultMaxRows
    /\ pc = [t \in Callers |-> "idle"]
    /\ attempt = [t \in Callers |-> 0]
    /\ call_id = [t \in Callers |-> 0]
    /\ loaded = [t \in Callers |-> None]
    /\ tries = [t \in Callers |-> 0]
    /\ raised = [t \in Callers |-> 0]
    /\ slept = [t \in Callers |-> 0]
    /\ customer_reviews_df = None
    /\ returned = [t \in Callers |-> None]
    /\ calls = [t \in Callers |-> 0]
    /\ loader_calls = 0
    /\ stores = 0

CacheNext ==
    \E t \in Callers :
        \/ GetDatasetCheck(t)
        \/ AttemptSucceeds(t)
        \/ AttemptRaises(t)
        \/ Sleep(t)
        \/ GetDatasetStore(t)
        \/ GetDatasetReturn(t)

CacheSpec == CacheInit /\ [][CacheNext]_vars

\* a call that starts when no other call is running
GetDatasetCheckInTurn(t) ==
    /\ \A u \in Callers : ~InCall(u)
    /\ GetDatasetCheck(t)

SeqNext ==
    \E t \in Callers :
        \/ GetDatasetCheckInTurn(t)
        \/ AttemptSucceeds(t)
        \/ AttemptRaises(t)
        \/ Sleep(t)
        \/ GetDatasetStore(t)
        \/ GetDatasetReturn(t)

SeqSpec == CacheInit /\ [][SeqNext]_vars

(***************************************************************************)
(* Properties of the dataset cache                                         *)
(***************************************************************************)
InLoader(t) == pc[t] \in {"attempt", "sleep", "loader_returned"}

\* what holds after every call that has ended
CacheReturned ==
    \* a table a call returned is the cached one
    /\ \A t \in Callers :
          (pc[t] = "done" /\ returned[t] # None) => returned[t] = customer_reviews_df
    /\ stores <= 1
    /\ (customer_reviews_df # None) <=> (stores = 1)

\* what holds of every step
CacheStep ==
    \* a stored table stays, and the loader is not invoked again
    /\ customer_reviews_df # None =>
          customer_reviews_df' = customer_reviews_df /\ loader_calls' = loader_calls
    \* a call that starts on an empty cache invokes the loader
    /\ \A t \in Callers :
          (~InCall(t) /\ InCall(t)' /\ customer_reviews_df = None) =>
              (loader_calls' = loader_calls + 1 /\ InLoader(t)')
    \* a call that ends returns the cache as it is then: the stored table, or
    \* None while the cache is empty
    /\ \A t \in Callers :
          (InCall(t) /\ ~InCall(t)') =>
              (returned'[t] = customer_reviews_df /\ customer_reviews_df' = customer_reviews_df)

\* C9: over a sequence of get_dataset calls the dataset is loaded once and
\* cached: once a table is stored every later call returns that table
\* without invoking the loader and the cache is never reset or replaced;
\* while the cache is empty after a failed load, get_dataset returns None and
\* the next call attempts the load again.
C9_LoadedOnceThenCached == []CacheReturned /\ [][CacheStep]_vars

\* C9 witness: a first call's load failed and it returned None, a second
\* call loaded and stored the table, and a third call returned that table
\* without a load of its own.
C9_Witness ==
    /\ \A t \in Callers : pc[t] = "done"
    /\ loader_calls = 2
    /\ stores = 1
    /\ \E t \in Callers :
          /\ calls[t] = 2
          /\ call_id[t] = 1
          /\ returned[t] = customer_reviews_df
          /\ returned[t] # None
          /\ returned[t].id = 2

\* C10: the lazy load has no single-flight guard: a caller that finds the
\* cache empty enters the loader whatever the other callers are doing, also
\* while another caller is inside the loader.
C10_NoSingleFlightGuard ==
    \A t \in Callers :
        (~InCall(t) /\ calls[t] < MaxCalls /\ customer_reviews_df = None) =>
            ENABLED (GetDatasetCheck(t) /\ InLoader(t)')

\* C10 witness: two first requests are inside the loader at once: the loader
\* was invoked twice and the cache has not been set.
C10_Witness ==
    /\ \A t \in Callers : InLoader(t) /\ calls[t] = 1
    /\ loader_calls = 2
    /\ stores = 0
    /\ customer_reviews_df = None

====
